---- MODULE Spec2Model ----
(***************************************************************************)
(* File upload service with virus scan: the FastAPI handlers of            *)
(* app/main.py, the Celery scan task of app/tasks/virus_scan.py, the       *)
(* download tokens of app/utils/helpers.py and the storage backends of     *)
(* app/storage, as one state machine.                                      *)
(*                                                                         *)
(* Granularity. The API handlers and the Celery task run in different      *)
(* processes and share only Redis, the storage backend and the scratch     *)
(* directory, so a handler is cut exactly where it touches that shared     *)
(* state a second time after work another process can interleave with:     *)
(* upload_file (first metadata write / task submission / second metadata   *)
(* write), download_file (metadata read / serve and statistics write) and   *)
(* the task body (fetch / connect / scan).  Everything else is one action. *)
(*                                                                         *)
(* Spec and FairSpec run the service.  TokenSpec calls the token helpers   *)
(* directly and StorageSpec calls save_file of the three backend classes   *)
(* directly, with arguments the service itself never passes; both record   *)
(* the call in the variable probe, which the service leaves alone.         *)
(* ScannerSpec calls ClamAVScanner.connect, FailureSpec builds the bodies  *)
(* of failure responses, RetentionSpec follows the time to live of the     *)
(* records and ScratchSpec the scratch directory with cleanup_temp_files,  *)
(* all four through probe as well.  PipelineSpec runs the upload and scan  *)
(* steps of the service for two file ids side by side, and ListSpec runs   *)
(* list_files against a store whose records come and go.                   *)
(***************************************************************************)
EXTENDS Integers, Sequences, FiniteSets, TLC

(* ---------------------------------------------------------------- bounds *)
\* clock ticks the model runs for, and the hours one tick stands for
MaxTick == 1
TickHours == 25
\* times the scheduler delivers one file's scan task again
MaxRedeliveries == 1
\* download requests served per file
MaxDownloads == 1

(* ------------------------------------------------------ program constants *)
download_link_expire_hours == 24

\* file identities (uuid4, one per upload) and upload bodies
Files == {"f1"}
Contents == {"B1"}
Threats == {"EICAR-Test"}
\* Python's None, per type: a string, a dict or object, a timestamp, a list
None == "None"
Null == [null |-> TRUE]
NoTime == 0 - 1
NullList == <<"None">>

(* --------------------------------------------------------- app/models.py *)
ScanStatus == {"pending", "scanning", "clean", "infected", "error"}
Terminal == {"clean", "infected", "error"}

\* VirusScanResult; scan_duration and engine_version are informational and
\* left out, threats_found and error_message default to None
VirusScanResult(st, ts, threats, err) ==
    [status |-> st, scan_timestamp |-> ts, threats_found |-> threats,
     error_message |-> err]

(* --------------------------------------------------------- state *)
VARIABLES
    now,           \* datetime.utcnow() / time.time(), in hours
    storage_type,  \* settings.storage_type, fixed at process start
    redis,         \* redis_client: file id -> serialized record, or Null
    blobs,         \* storage backend: file id -> stored bytes, or None
    tmpdir,        \* tempfile directory: file id -> scratch files it holds
    up,            \* upload_file request per file id: position and locals
    task,          \* Celery scan task per file id: position and locals
    backend,       \* Celery result backend: file id -> last task result
    dl,            \* download_file requests in flight, per file id
    issued,        \* download tokens handed out by generate_download_link
    resp,          \* the HTTP response this step sent, NoResp if none
    probe          \* a direct call of a helper: its arguments and its result

vars == <<now, storage_type, redis, blobs, tmpdir, up, task, backend, dl,
          issued, resp, probe>>

NoResp == [op |-> "none", f |-> None, code |-> 0, detail |-> None, body |-> None]
Response(op, f, code, detail, body) ==
    [op |-> op, f |-> f, code |-> code, detail |-> detail, body |-> body]

\* no helper has been called directly
NoProbe == [op |-> "none"]

(* ------------------------------------------------ app/utils/helpers.py *)
\* jwt.encode of {file_id, exp, type} under settings.secret_key: a token is
\* its claims plus the key that signed it
Token(fid, exp, typ, key) == [file_id |-> fid, exp |-> exp, type |-> typ, key |-> key]

\* expires_delta omitted (None), and the hours of a timedelta
NoDelta == 0 - 1

\* lines 53-67: "if expires_delta:" takes the default lifetime for None and
\* for a zero timedelta alike
generate_download_token(fid, expires_delta, t) ==
    Token(fid,
          IF expires_delta # NoDelta /\ expires_delta # 0
            THEN t + expires_delta
            ELSE t + download_link_expire_hours,
          "download", "secret_key")

\* the same without the look at the purpose of the token
verify_download_token_any_purpose(tok, t) ==
    IF tok.key # "secret_key" THEN None
    ELSE IF tok.exp < t THEN None
    ELSE tok.file_id

\* jwt.decode raises JWTError on a bad signature and on exp < now; the
\* function returns None then, and when file_id is missing or type is not
\* "download"
verify_download_token(tok, t) ==
    IF tok.key # "secret_key" THEN None
    ELSE IF tok.exp < t THEN None
    ELSE IF tok.file_id = None \/ tok.type # "download" THEN None
    ELSE tok.file_id

\* tokens a client can present: the issued ones, and forgeries of them
\* signed with another key or stretched in time
Forged == {Token(f, e, "download", "other_key") : f \in Files,
                                                  e \in {MaxTick * TickHours + download_link_expire_hours}}

(* ------------------------------------------------------- app/main.py *)
\* the record upload_file builds (lines 171-183); filename, size and
\* content type never change and are left out
NewRecord ==
    [scan_status |-> "pending", scan_result |-> Null, scan_timestamp |-> NoTime,
     download_count |-> 0, last_downloaded |-> NoTime, task_id |-> None]

\* redis GET file:{id}.  An exception is answered with None, which every
\* caller treats as "no record"; that fault is not injected
get_file_metadata(f) == redis[f]

\* a store that loses the write and reports what it was asked to report
save_file_metadata_lost(f, metadata, ok) == redis

\* redis SETEX file:{id}: the whole record is replaced; FALSE on an exception
save_file_metadata(f, metadata, ok) == IF ok THEN [redis EXCEPT ![f] = metadata] ELSE redis

\* settings.max_file_size, and the length of an upload body
max_file_size == 104857600
Len_(content) ==
    CASE content = "" -> 0
      [] content = "HUGE" -> max_file_size + 1
      [] OTHER -> 40

\* is_allowed_file: the lower-cased suffix is one of settings.allowed_extensions
allowed_extensions == {".txt", ".pdf", ".zip"}
is_allowed_file(req) == req.ext \in allowed_extensions

\* upload requests: a filename (with its suffix) and a body
Upload(n, e, c) == [filename |-> n, ext |-> e, content |-> c]
Uploads == {Upload("note", ".txt", c) : c \in Contents \cup {"", "HUGE"}}
              \cup {Upload("", "", "B1"), Upload("note", ".exe", "B1")}

\* the same validation with the empty-file check missing
upload_validation_empty_allowed(req) ==
    IF req.filename = "" THEN 400
    ELSE IF ~is_allowed_file(req) THEN 400
    ELSE IF Len_(req.content) > max_file_size THEN 413
    ELSE 0

\* lines 131-158: the status a request is rejected with, 0 when it is valid
upload_validation(req) ==
    IF req.filename = "" THEN 400
    ELSE IF ~is_allowed_file(req) THEN 400
    ELSE IF Len_(req.content) > max_file_size THEN 413
    ELSE IF Len_(req.content) = 0 THEN 400
    ELSE 0

\* save_file of a backend class for a target that is present or not:
\* LocalStorage looks with file_path.exists() and raises FileExistsError,
\* AzureStorage uploads with overwrite=False (ResourceExistsError becomes
\* FileExistsError), S3Storage calls put_object, which has no such check
storage_put(backend_class, present, ok) ==
    IF backend_class \in {"local", "azure"} /\ present THEN "exists"
    ELSE IF ~ok THEN "error"
    ELSE "ok"

\* delete_file of a backend class, as its boolean answer.  LocalStorage
\* removes the path when os.path.exists and answers False otherwise and on
\* every exception; AzureStorage answers False on ResourceNotFoundError and
\* on every other exception; S3Storage calls delete_object without looking
\* and answers True unless a ClientError is raised, and the service raises
\* none for a key that does not exist
storage_remove(backend_class, present, ok) ==
    IF backend_class = "s3" THEN ok ELSE ok /\ present

\* storage.save_file: "exists" (FileExistsError), "error" or "ok"; storage is
\* S3Storage when settings.storage_type is "s3" and LocalStorage otherwise
storage_save_file(f, ok) ==
    storage_put(IF storage_type = "s3" THEN "s3" ELSE "local", blobs[f] # None, ok)

TaskId(f) == f

\* the state after start-up: nothing uploaded.  storage_type takes the two
\* values main.py line 46 and virus_scan.py line 37 tell apart: "s3", and
\* anything else, which selects LocalStorage
Init ==
    /\ now = 0
    /\ storage_type \in {"local", "s3"}
    /\ redis = [f \in Files |-> Null]
    /\ blobs = [f \in Files |-> None]
    /\ tmpdir = [f \in Files |-> 0]
    /\ up = [f \in Files |-> "new"]
    /\ task = [f \in Files |-> [pc |-> "none", runs |-> 0, temp |-> FALSE]]
    /\ backend = [f \in Files |-> Null]
    /\ dl = [f \in Files |-> Null]
    /\ issued = {}
    /\ resp = NoResp
    /\ probe = NoProbe

\* no handler and no task body runs across a tick: a tick is a day or more,
\* a task runs for at most task_time_limit (300 s), a handler for less
Quiescent ==
    \A f \in Files :
        /\ up[f] \in {"new", "done", "failed"}
        /\ task[f].pc \in {"none", "queued", "done", "killed"}
        /\ dl[f] = Null

\* time passes
Tick ==
    /\ now < MaxTick * TickHours
    /\ Quiescent
    /\ now' = now + TickHours
    /\ resp' = NoResp
    /\ UNCHANGED <<storage_type, probe, redis, blobs, tmpdir, up, task, backend,
                   dl, issued>>

(* ------------------------------------------------ upload_file (main.py) *)
\* lines 131-158: a request that fails validation is answered at once.
\* Upload requests, valid or not, are sent while an identity is unused
upload_file_reject(req) ==
    /\ \E f \in Files : up[f] = "new"
    /\ upload_validation(req) # 0
    /\ resp' = Response("upload", None, upload_validation(req), "validation", None)
    /\ UNCHANGED <<now, storage_type, probe, redis, blobs, tmpdir, up, task, backend,
                   dl, issued>>

\* lines 163-190: fresh file id, storage.save_file, first save_file_metadata
upload_file_store(f, req, save_ok, meta_ok) ==
    /\ up[f] = "new"
    /\ upload_validation(req) = 0
    /\ LET saved == storage_save_file(f, save_ok) IN
         CASE saved = "exists" ->
                /\ resp' = Response("upload", f, 409, "File already exists", None)
                /\ UNCHANGED <<blobs, redis, up>>
           [] saved = "error" ->
                /\ resp' = Response("upload", f, 500, "Failed to upload file", None)
                /\ UNCHANGED <<blobs, redis, up>>
           [] OTHER ->
                /\ blobs' = [blobs EXCEPT ![f] = req.content]
                /\ redis' = save_file_metadata(f, NewRecord, meta_ok)
                /\ IF meta_ok
                     THEN /\ up' = [up EXCEPT ![f] = "recorded"]
                          /\ resp' = NoResp
                     ELSE /\ up' = [up EXCEPT ![f] = "failed"]
                          /\ resp' = Response("upload", f, 500, "Failed to upload file", None)
    /\ UNCHANGED <<now, storage_type, probe, tmpdir, task, backend, dl, issued>>

\* lines 192-197: scan_file_for_viruses.delay; a broker failure raises
upload_file_submit(f, ok) ==
    /\ up[f] = "recorded"
    /\ IF ok
         THEN /\ task' = [task EXCEPT ![f] = [pc |-> "queued", runs |-> 0, temp |-> FALSE]]
              /\ up' = [up EXCEPT ![f] = "submitted"]
              /\ resp' = NoResp
         ELSE /\ up' = [up EXCEPT ![f] = "failed"]
              /\ resp' = Response("upload", f, 500, "Failed to upload file", None)
              /\ UNCHANGED task
    /\ UNCHANGED <<now, storage_type, probe, redis, blobs, tmpdir, backend, dl,
                   issued>>

\* lines 199-210: the handler's own copy of the record, with task_id added,
\* is written over whatever the store holds; the result is not looked at
upload_file_task_id(f, ok) ==
    /\ up[f] = "submitted"
    /\ redis' = save_file_metadata(f, [NewRecord EXCEPT !.task_id = TaskId(f)], ok)
    /\ up' = [up EXCEPT ![f] = "done"]
    /\ resp' = Response("upload", f, 200, "pending", None)
    /\ UNCHANGED <<now, storage_type, probe, blobs, tmpdir, task, backend, dl,
                   issued>>

upload_file ==
    \/ \E req \in Uploads : upload_file_reject(req)
    \/ \E f \in Files, req \in Uploads, a, b \in BOOLEAN : upload_file_store(f, req, a, b)
    \/ \E f \in Files, ok \in BOOLEAN : upload_file_submit(f, ok)
    \/ \E f \in Files, ok \in BOOLEAN : upload_file_task_id(f, ok)

(* --------------------------- ClamAVScanner (app/tasks/virus_scan.py) *)
\* what the daemon does when asked: at connect() it answers the ping, refuses
\* or stays silent; at scan_file() it returns None, {path: ('FOUND', T)},
\* {path: ('ERROR', msg)} or {}, or stays silent
ConnectReplies == {"pong", "refused", "silent"}
ScanReplies == {"none", "found", "error_entry", "empty", "silent"}

\* lines 51-67: every failure inside connect() becomes a ConnectionError
ClamAVScanner_connect(reply) ==
    CASE reply = "pong" -> "connected"
      [] reply = "refused" -> "Failed to connect to ClamAV: refused"
      [] OTHER -> "Failed to connect to ClamAV: SoftTimeLimitExceeded()"

\* lines 69-100: None is clean; any mapping is read as an infection whose
\* threat is the second element of its first entry; an exception is re-raised
ClamAVScanner_scan_file(reply, threat) ==
    CASE reply = "none" ->
           [status |-> "clean", threats_found |-> <<>>, raised |-> None]
      [] reply = "found" ->
           [status |-> "infected", threats_found |-> <<threat>>, raised |-> None]
      [] reply = "error_entry" ->
           [status |-> "infected", threats_found |-> <<"lstat() failed">>, raised |-> None]
      [] reply = "empty" ->
           [status |-> None, threats_found |-> NullList,
            raised |-> "Virus scan failed: list index out of range"]
      [] OTHER ->
           [status |-> None, threats_found |-> NullList,
            raised |-> "Virus scan failed: SoftTimeLimitExceeded()"]

(* ------------------- scan_file_for_viruses (app/tasks/virus_scan.py) *)
\* an except branch that drops the text of the exception
ErrorResult_without_message(msg) == VirusScanResult("error", now, NullList, None)

\* lines 164-176: the except branch builds the error result
ErrorResult(msg) == VirusScanResult("error", now, NullList, msg)

\* a finally block that empties the whole scratch directory
Unlinked_everything(f) == [g \in DOMAIN tmpdir |-> 0]

\* lines 178-184: finally unlinks the scratch file the task knows of
Unlinked(f) == IF task[f].temp THEN [tmpdir EXCEPT ![f] = @ - 1] ELSE tmpdir

\* the task returns: its result goes to the result backend
TaskReturns(f, result) ==
    /\ backend' = [backend EXCEPT ![f] = result]
    /\ tmpdir' = Unlinked(f)
    /\ task' = [task EXCEPT ![f].pc = "done", ![f].temp = FALSE]

\* task_time_limit (line 29): the worker process is killed; no except, no
\* finally, no result
TaskKilled(f) ==
    /\ backend' = [backend EXCEPT ![f] = Null]
    /\ task' = [task EXCEPT ![f].pc = "killed", ![f].temp = FALSE]
    /\ UNCHANGED tmpdir

\* lines 116-138: the task starts and resolves a local path.  S3 and Azure:
\* download_file_to_temp makes the scratch file first and returns None when
\* the download fails; local: the stored path must exist
scan_task_fetch(f, backend_ok) ==
    /\ task[f].pc = "queued"
    /\ IF storage_type = "s3"
         THEN IF backend_ok /\ blobs[f] # None
                THEN /\ tmpdir' = [tmpdir EXCEPT ![f] = @ + 1]
                     /\ task' = [task EXCEPT ![f].pc = "fetched", ![f].temp = TRUE,
                                             ![f].runs = @ + 1]
                     /\ UNCHANGED backend
                ELSE /\ tmpdir' = [tmpdir EXCEPT ![f] = @ + 1]
                     /\ task' = [task EXCEPT ![f].pc = "done", ![f].runs = @ + 1]
                     /\ backend' = [backend EXCEPT ![f] =
                            ErrorResult("Failed to download file from S3 for scanning")]
         ELSE IF blobs[f] # None
                THEN /\ task' = [task EXCEPT ![f].pc = "fetched", ![f].runs = @ + 1]
                     /\ UNCHANGED <<backend, tmpdir>>
                ELSE /\ task' = [task EXCEPT ![f].pc = "done", ![f].runs = @ + 1]
                     /\ backend' = [backend EXCEPT ![f] =
                            ErrorResult("File not found in local storage")]
                     /\ UNCHANGED tmpdir
    /\ resp' = NoResp
    /\ UNCHANGED <<now, storage_type, probe, redis, blobs, up, dl, issued>>

\* line 141 -> lines 51-67: scanner.connect(); a silent daemon is ended by
\* the soft time limit (an exception in the task) or by the hard one
scan_task_connect(f, reply, hard) ==
    /\ task[f].pc = "fetched"
    /\ IF reply = "silent" /\ hard
         THEN TaskKilled(f)
         ELSE IF ClamAVScanner_connect(reply) = "connected"
                THEN /\ task' = [task EXCEPT ![f].pc = "connected"]
                     /\ UNCHANGED <<backend, tmpdir>>
                ELSE TaskReturns(f, ErrorResult(ClamAVScanner_connect(reply)))
    /\ resp' = NoResp
    /\ UNCHANGED <<now, storage_type, probe, redis, blobs, up, dl, issued>>

\* the same step of a task that removes the bytes of a file found infected
scan_task_scan_removing_infected(f, reply, threat, hard) ==
    /\ task[f].pc = "connected"
    /\ IF reply = "silent" /\ hard
         THEN TaskKilled(f) /\ UNCHANGED blobs
         ELSE LET r == ClamAVScanner_scan_file(reply, threat) IN
              IF r.raised # None
                THEN TaskReturns(f, ErrorResult(r.raised)) /\ UNCHANGED blobs
                ELSE /\ TaskReturns(f, VirusScanResult(r.status, now, r.threats_found, None))
                     /\ blobs' = IF r.status = "infected"
                                   THEN [blobs EXCEPT ![f] = None] ELSE blobs
    /\ resp' = NoResp
    /\ UNCHANGED <<now, storage_type, probe, redis, up, dl, issued>>

\* lines 141-162 and 164-184: version and scan commands, result object,
\* return; nothing here reads or writes the file's record
scan_task_scan(f, reply, threat, hard) ==
    /\ task[f].pc = "connected"
    /\ IF reply = "silent" /\ hard
         THEN TaskKilled(f)
         ELSE LET r == ClamAVScanner_scan_file(reply, threat) IN
              IF r.raised # None
                THEN TaskReturns(f, ErrorResult(r.raised))
                ELSE TaskReturns(f, VirusScanResult(r.status, now, r.threats_found, None))
    /\ resp' = NoResp
    /\ UNCHANGED <<now, storage_type, probe, redis, blobs, up, dl, issued>>

\* the scheduler delivers the task again (at-least-once, task_acks_late)
scan_task_redeliver(f) ==
    /\ task[f].pc \in {"done", "killed"}
    /\ task[f].runs <= MaxRedeliveries
    /\ task' = [task EXCEPT ![f].pc = "queued"]
    /\ resp' = NoResp
    /\ UNCHANGED <<now, storage_type, probe, redis, blobs, tmpdir, up, backend,
                   dl, issued>>

scan_file_for_viruses ==
    \/ \E f \in Files, ok \in BOOLEAN : scan_task_fetch(f, ok)
    \/ \E f \in Files, r \in ConnectReplies, hard \in BOOLEAN : scan_task_connect(f, r, hard)
    \/ \E f \in Files, r \in ScanReplies, t \in Threats, hard \in BOOLEAN :
          scan_task_scan(f, r, t, hard)
    \/ \E f \in Files : scan_task_redeliver(f)

(* ------------------------------- update_file_scan_result (main.py) *)
\* lines 81-83: the three fields the write-back sets
WithScanResult(metadata, scan_result) ==
    [metadata EXCEPT !.scan_status = scan_result.status,
                     !.scan_result = scan_result,
                     !.scan_timestamp = scan_result.scan_timestamp]

\* lines 76-87, called with the result a finished task left in the result
\* backend (no caller is part of the repository: neither the task nor a
\* handler calls it).  Without a record it returns False and writes nothing
update_file_scan_result(f, ok) ==
    /\ backend[f] # Null
    /\ get_file_metadata(f) # Null
    /\ redis' = save_file_metadata(f, WithScanResult(get_file_metadata(f), backend[f]), ok)
    /\ resp' = NoResp
    /\ UNCHANGED <<now, storage_type, probe, blobs, tmpdir, up, task, backend, dl, issued>>

(* ------------------------------------------- storage backends *)
\* file_exists: LocalStorage (os.path.exists), S3Storage (head_object)
storage_file_exists(f) == blobs[f] # None

\* generate_presigned_url (S3): signs a URL without looking at the object;
\* None on a ClientError
storage_generate_presigned_url(f, ok) == IF ok THEN "presigned_url" ELSE None

\* LocalStorage.get_download_path: the path when the file exists, else None
storage_get_download_path(f) == IF blobs[f] # None THEN "path" ELSE None

(* ------------------------------ generate_download_link (main.py) *)
\* the same handler with the infected branch missing
download_link_check_no_infected_branch(f, metadata) ==
    IF metadata = Null THEN Response("link", f, 404, "File not found", None)
    ELSE IF metadata.scan_status \in {"pending", "scanning"}
           THEN Response("link", f, 202, "File is still being scanned. Please try again later.", None)
    ELSE IF metadata.scan_status = "error"
           THEN Response("link", f, 500, "File scan failed. Please contact support.", None)
    ELSE IF ~storage_file_exists(f)
           THEN Response("link", f, 404, "File not found in storage", None)
    ELSE Response("link", f, 200, "download_url", None)

\* lines 278-310: the answer for the record read, before a token is made
download_link_check(f, metadata) ==
    IF metadata = Null THEN Response("link", f, 404, "File not found", None)
    ELSE IF metadata.scan_status # "clean"
           THEN IF metadata.scan_status = "infected"
                  THEN Response("link", f, 403, "File contains viruses and cannot be downloaded", None)
                ELSE IF metadata.scan_status \in {"pending", "scanning"}
                  THEN Response("link", f, 202, "File is still being scanned. Please try again later.", None)
                ELSE Response("link", f, 500, "File scan failed. Please contact support.", None)
    ELSE IF ~storage_file_exists(f)
           THEN Response("link", f, 404, "File not found in storage", None)
    ELSE Response("link", f, 200, "download_url", None)

\* lines 268-339: the whole handler; it only reads the record
generate_download_link(f) ==
    /\ resp' = download_link_check(f, get_file_metadata(f))
    /\ issued' = IF resp'.code = 200
                   THEN issued \cup {generate_download_token(f, NoDelta, now)}
                   ELSE issued
    /\ UNCHANGED <<now, storage_type, probe, redis, blobs, tmpdir, up, task, backend, dl>>

(* --------------------------------------- download_file (main.py) *)
\* the same checks without the look at scan_status
download_check_no_scan_status(tok, metadata) ==
    IF verify_download_token(tok, now) = None THEN 401
    ELSE IF metadata = Null THEN 404
    ELSE 0

\* lines 350-371: token, record and scan status; 0 when the request may go on
download_check(tok, metadata) ==
    IF verify_download_token(tok, now) = None THEN 401
    ELSE IF metadata = Null THEN 404
    ELSE IF metadata.scan_status # "clean" THEN 403
    ELSE 0

download_detail(code) ==
    CASE code = 401 -> "Invalid or expired download token"
      [] code = 404 -> "File not found"
      [] OTHER -> "File is not safe for download"

\* lines 350-371: the request is refused, or goes on with the record it read
download_file_check(tok) ==
    LET f == IF tok.file_id = None THEN CHOOSE x \in Files : TRUE ELSE tok.file_id
        metadata == get_file_metadata(f)
        code == download_check(tok, metadata)
    IN  /\ dl[f] = Null
        /\ (IF code = 0 THEN metadata.download_count < MaxDownloads ELSE TRUE)
        /\ IF code # 0
             THEN /\ resp' = Response("download", f, code, download_detail(code), None)
                  /\ UNCHANGED dl
             ELSE /\ dl' = [dl EXCEPT ![f] = [metadata |-> metadata]]
                  /\ resp' = NoResp
        /\ UNCHANGED <<now, storage_type, probe, redis, blobs, tmpdir, up, task, backend,
                       issued>>

\* lines 388-389 / 407-408: the statistics the handler sets on its copy
WithDownload(metadata) ==
    [metadata EXCEPT !.download_count = @ + 1, !.last_downloaded = now]

\* a handler that writes the statistics before it looks at the storage
download_file_serve_counting_first(f, url_ok, save_ok) ==
    /\ dl[f] # Null
    /\ dl' = [dl EXCEPT ![f] = Null]
    /\ redis' = save_file_metadata(f, WithDownload(dl[f].metadata), save_ok)
    /\ resp' = IF storage_type = "s3"
                THEN IF storage_generate_presigned_url(f, url_ok) = None
                       THEN Response("download", f, 500,
                               "Failed to download file: 404: Failed to generate download URL", None)
                       ELSE Response("download", f, 302, "download_url",
                                     storage_generate_presigned_url(f, url_ok))
                ELSE IF storage_get_download_path(f) = None
                       THEN Response("download", f, 500,
                               "Failed to download file: 404: File not found in storage", None)
                       ELSE Response("download", f, 200, "FileResponse", blobs[f])
    /\ UNCHANGED <<now, storage_type, probe, blobs, tmpdir, up, task, backend, issued>>

\* lines 373-421: presigned URL (S3) or stored path (local); the 404 raised
\* inside the try is caught by its own except and leaves as a 500; otherwise
\* the handler's copy of the record is written back whole and the bytes or
\* the URL are released
download_file_serve(f, url_ok, save_ok) ==
    /\ dl[f] # Null
    /\ dl' = [dl EXCEPT ![f] = Null]
    /\ IF storage_type = "s3"
         THEN IF storage_generate_presigned_url(f, url_ok) = None
                THEN /\ resp' = Response("download", f, 500,
                           "Failed to download file: 404: Failed to generate download URL", None)
                     /\ UNCHANGED redis
                ELSE /\ redis' = save_file_metadata(f, WithDownload(dl[f].metadata), save_ok)
                     /\ resp' = Response("download", f, 302, "download_url",
                                         storage_generate_presigned_url(f, url_ok))
         ELSE IF storage_get_download_path(f) = None
                THEN /\ resp' = Response("download", f, 500,
                           "Failed to download file: 404: File not found in storage", None)
                     /\ UNCHANGED redis
                ELSE /\ redis' = save_file_metadata(f, WithDownload(dl[f].metadata), save_ok)
                     /\ resp' = Response("download", f, 200, "FileResponse", blobs[f])
    /\ UNCHANGED <<now, storage_type, probe, blobs, tmpdir, up, task, backend, issued>>

download_file ==
    \/ \E tok \in issued \cup Forged : download_file_check(tok)
    \/ \E f \in Files, a, b \in BOOLEAN : download_file_serve(f, a, b)

(* ------------------------------------------ delete_file (main.py) *)
\* storage.delete_file: LocalStorage removes an existing file and swallows
\* every exception; S3Storage answers True unless the call fails
storage_delete_file(f, ok) ==
    storage_remove(IF storage_type = "s3" THEN "s3" ELSE "local", blobs[f] # None, ok)

\* lines 432-455: bytes first, then the record; a failing redis delete is the
\* only exception that can leave the try block
delete_file(f, storage_ok, redis_ok) ==
    /\ IF get_file_metadata(f) = Null
         THEN /\ resp' = Response("delete", f, 404, "File not found", None)
              /\ UNCHANGED <<blobs, redis>>
         ELSE /\ blobs' = IF storage_ok THEN [blobs EXCEPT ![f] = None] ELSE blobs
              /\ IF redis_ok
                   THEN /\ redis' = [redis EXCEPT ![f] = Null]
                        /\ resp' = Response("delete", f, 200,
                              IF storage_delete_file(f, storage_ok)
                                THEN "File deleted successfully"
                                ELSE "File metadata deleted (file may not have existed in storage)",
                              None)
                   ELSE /\ resp' = Response("delete", f, 500, "Failed to delete file", None)
                        /\ UNCHANGED redis
    /\ UNCHANGED <<now, storage_type, probe, tmpdir, up, task, backend, dl, issued>>

Next ==
    \/ Tick
    \/ upload_file
    \/ scan_file_for_viruses
    \/ \E f \in Files, ok \in BOOLEAN : update_file_scan_result(f, ok)
    \/ \E f \in Files : generate_download_link(f)
    \/ download_file
    \/ \E f \in Files, a, b \in BOOLEAN : delete_file(f, a, b)

Spec == Init /\ [][Next]_vars

\* the scheduling the deployment gives: a worker runs the task it was handed
\* to its end, and a handler that has started runs on to its response.
\* Client requests, redeliveries, the clock and update_file_scan_result
\* (which nothing in the repository calls) are not scheduled by the code
FairSpec ==
    /\ Spec
    /\ WF_vars(\E f \in Files, ok \in BOOLEAN : scan_task_fetch(f, ok))
    /\ WF_vars(\E f \in Files, r \in ConnectReplies, hard \in BOOLEAN :
                  scan_task_connect(f, r, hard))
    /\ WF_vars(\E f \in Files, r \in ScanReplies, t \in Threats, hard \in BOOLEAN :
                  scan_task_scan(f, r, t, hard))
    /\ WF_vars(\E f \in Files, ok \in BOOLEAN : upload_file_submit(f, ok))
    /\ WF_vars(\E f \in Files, ok \in BOOLEAN : upload_file_task_id(f, ok))
    /\ WF_vars(\E f \in Files, a, b \in BOOLEAN : download_file_serve(f, a, b))

(* ------------- download tokens called directly (app/utils/helpers.py) *)
\* hours the token clock runs for
TokenMaxHour == 26

\* lifetimes a caller passes as expires_delta, in hours
TTLs == {NoDelta, 0, 1, 2}

\* a string that is not a JWT: no claims can be read from it and no
\* signature checked; jwt.decode raises JWTError
MalformedToken == [file_id |-> None, exp |-> 0, type |-> None, key |-> None]

\* tokens that did not come from generate_download_token: malformed ones, and
\* JWTs with or without a file_id, of either purpose, under either key,
\* expired long ago or not for a long time
Presented ==
    {MalformedToken} \cup
    {Token(f, e, ty, k) : f \in Files \cup {None}, e \in {0, 2 * TokenMaxHour},
                          ty \in {"download", "upload"},
                          k \in {"secret_key", "other_key"}}

\* a call of a token helper, with its arguments and, once verified, its result
TokenProbe(op, fid, ttl, at, tok, tampered, result, vat) ==
    [op |-> op, origin |-> op, file_id |-> fid, ttl |-> ttl, at |-> at,
     token |-> tok, tampered |-> tampered, result |-> result, vat |-> vat]

\* the clock of the token helpers: datetime.utcnow(), in hours
token_tick ==
    /\ now < TokenMaxHour
    /\ now' = now + 1
    /\ UNCHANGED <<storage_type, probe, redis, blobs, tmpdir, up, task, backend,
                   dl, issued, resp>>

\* generate_download_token(file_id, expires_delta) is called
token_issue(fid, ttl) ==
    /\ probe = NoProbe
    /\ probe' = TokenProbe("issued", fid, ttl, now,
                           generate_download_token(fid, ttl, now), FALSE, None, NoTime)
    /\ UNCHANGED <<now, storage_type, redis, blobs, tmpdir, up, task, backend,
                   dl, issued, resp>>

\* a client makes up a token
token_present(tok) ==
    /\ probe = NoProbe
    /\ probe' = TokenProbe("presented", tok.file_id, NoDelta, now, tok, FALSE, None, NoTime)
    /\ UNCHANGED <<now, storage_type, redis, blobs, tmpdir, up, task, backend,
                   dl, issued, resp>>

\* a byte of an issued token's signature is flipped: the signature is no
\* longer the one settings.secret_key gives
token_tamper ==
    /\ probe.op = "issued"
    /\ ~probe.tampered
    /\ probe' = [probe EXCEPT !.token.key = "other_key", !.tampered = TRUE]
    /\ UNCHANGED <<now, storage_type, redis, blobs, tmpdir, up, task, backend,
                   dl, issued, resp>>

\* verify_download_token(token) is called
token_verify ==
    /\ probe.op \in {"issued", "presented"}
    /\ probe' = [probe EXCEPT !.op = "verified",
                              !.result = verify_download_token(probe.token, now),
                              !.vat = now]
    /\ UNCHANGED <<now, storage_type, redis, blobs, tmpdir, up, task, backend,
                   dl, issued, resp>>

TokenNext ==
    \/ token_tick
    \/ \E fid \in Files, ttl \in TTLs : token_issue(fid, ttl)
    \/ \E tok \in Presented : token_present(tok)
    \/ token_tamper
    \/ token_verify

TokenSpec == Init /\ [][TokenNext]_vars

(* ------------------- save_file called directly (app/storage/*.py) *)
\* concurrent callers of save_file for one target, and the bodies they send
Callers == {1, 2}
PutContents == {"B1", "B2"}
BackendClasses == {"local", "s3", "azure"}

IdleCall == [pc |-> "idle", content |-> None, before |-> None, result |-> None]

\* a backend class is instantiated
storage_open(b) ==
    /\ probe = NoProbe
    /\ probe' = [op |-> "storage", backend_class |-> b,
                 calls |-> [c \in Callers |-> IdleCall]]
    /\ UNCHANGED <<now, storage_type, redis, blobs, tmpdir, up, task, backend,
                   dl, issued, resp>>

\* save_file(file, file_id) starts.  S3 and Azure decide and write in one
\* request to the service; LocalStorage has looked at the path and, when it
\* is free, goes on to open it for writing
storage_put_begin(c, f, content, ok) ==
    /\ probe.op = "storage"
    /\ probe.calls[c].pc = "idle"
    /\ LET r == storage_put(probe.backend_class, blobs[f] # None, ok)
           call == [IdleCall EXCEPT !.content = content, !.before = blobs[f]]
       IN  IF r = "ok" /\ probe.backend_class = "local"
             THEN /\ probe' = [probe EXCEPT !.calls[c] = [call EXCEPT !.pc = "writing"]]
                  /\ UNCHANGED blobs
             ELSE /\ probe' = [probe EXCEPT !.calls[c] =
                                   [call EXCEPT !.pc = "done", !.result = r]]
                  /\ blobs' = IF r = "ok" THEN [blobs EXCEPT ![f] = content] ELSE blobs
    /\ UNCHANGED <<now, storage_type, redis, tmpdir, up, task, backend,
                   dl, issued, resp>>

\* LocalStorage.save_file lines 28-31: aiofiles.open(file_path, 'wb') and
\* write, whatever the path holds by now
storage_put_write(c, f) ==
    /\ probe.op = "storage"
    /\ probe.calls[c].pc = "writing"
    /\ blobs' = [blobs EXCEPT ![f] = probe.calls[c].content]
    /\ probe' = [probe EXCEPT !.calls[c].pc = "done", !.calls[c].result = "ok"]
    /\ UNCHANGED <<now, storage_type, redis, tmpdir, up, task, backend,
                   dl, issued, resp>>

\* delete_file(file_id, original_filename) is called: one request to the
\* service or one os.remove; the bytes go when they are there and the call
\* does not fail
storage_delete_call(c, f, ok) ==
    /\ probe.op = "storage"
    /\ probe.calls[c].pc = "idle"
    /\ probe' = [probe EXCEPT !.calls[c] =
                    [IdleCall EXCEPT !.pc = "done", !.before = blobs[f],
                        !.result = IF storage_remove(probe.backend_class, blobs[f] # None, ok)
                                     THEN "True" ELSE "False"]]
    /\ blobs' = IF ok THEN [blobs EXCEPT ![f] = None] ELSE blobs
    /\ UNCHANGED <<now, storage_type, redis, tmpdir, up, task, backend,
                   dl, issued, resp>>

\* the caller is done with its result and may call again
storage_put_return(c) ==
    /\ probe.op = "storage"
    /\ probe.calls[c].pc = "done"
    /\ probe' = [probe EXCEPT !.calls[c] = IdleCall]
    /\ UNCHANGED <<now, storage_type, redis, blobs, tmpdir, up, task, backend,
                   dl, issued, resp>>

StorageNext ==
    \/ \E b \in BackendClasses : storage_open(b)
    \/ \E c \in Callers, f \in Files, content \in PutContents, ok \in BOOLEAN :
          storage_put_begin(c, f, content, ok)
    \/ \E c \in Callers, f \in Files : storage_put_write(c, f)
    \/ \E c \in Callers, f \in Files, ok \in BOOLEAN : storage_delete_call(c, f, ok)
    \/ \E c \in Callers : storage_put_return(c)

StorageSpec == Init /\ [][StorageNext]_vars

(* --------- ClamAVScanner.connect called directly (virus_scan.py 51-67) *)
\* what connect() meets: whether the socket file /var/run/clamav/clamd.ctl
\* exists, and what the daemon does on the local socket and on host:port.
\* Without the socket file nothing answers on the local socket
ScannerEnvs ==
    {[socket_exists |-> s, unix |-> u, tcp |-> t] :
        s \in BOOLEAN, u \in ConnectReplies, t \in ConnectReplies}
    \ {e \in [socket_exists : {FALSE}, unix : {"pong", "silent"}, tcp : ConnectReplies] : TRUE}

\* lines 55-58: the socket file decides the channel; no other one is tried
ClamAVScanner_channel(env) == IF env.socket_exists THEN "unix" ELSE "tcp"

\* lines 51-67 for an environment: the answer of the one channel chosen
ClamAVScanner_connect_in(env) ==
    ClamAVScanner_connect(IF ClamAVScanner_channel(env) = "unix" THEN env.unix ELSE env.tcp)

\* a scanner object exists and the daemon is in some condition
scanner_open(env) ==
    /\ probe = NoProbe
    /\ probe' = [op |-> "scanner", env |-> env, pc |-> "idle",
                 seen |-> env, channel |-> None, result |-> None]
    /\ UNCHANGED <<now, storage_type, redis, blobs, tmpdir, up, task, backend,
                   dl, issued, resp>>

\* the daemon, or its socket file, comes or goes
scanner_env_change(env) ==
    /\ probe.op = "scanner"
    /\ probe.env # env
    /\ probe' = [probe EXCEPT !.env = env]
    /\ UNCHANGED <<now, storage_type, redis, blobs, tmpdir, up, task, backend,
                   dl, issued, resp>>

\* connect() is called: the environment it met, the channel, the result
scanner_connect_call ==
    /\ probe.op = "scanner"
    /\ probe.pc = "idle"
    /\ probe' = [probe EXCEPT !.pc = "done", !.seen = probe.env,
                              !.channel = ClamAVScanner_channel(probe.env),
                              !.result = ClamAVScanner_connect_in(probe.env)]
    /\ UNCHANGED <<now, storage_type, redis, blobs, tmpdir, up, task, backend,
                   dl, issued, resp>>

\* the caller is done with the result
scanner_return ==
    /\ probe.op = "scanner"
    /\ probe.pc = "done"
    /\ probe' = [probe EXCEPT !.pc = "idle", !.channel = None, !.result = None]
    /\ UNCHANGED <<now, storage_type, redis, blobs, tmpdir, up, task, backend,
                   dl, issued, resp>>

ScannerNext ==
    \/ \E env \in ScannerEnvs : scanner_open(env)
    \/ \E env \in ScannerEnvs : scanner_env_change(env)
    \/ scanner_connect_call
    \/ scanner_return

ScannerSpec == Init /\ [][ScannerNext]_vars

(* ------- the scan pipeline with two files in it (virus_scan.py, main.py) *)
\* two file ids, as generate_file_id hands out: the handlers and the task
\* above are those of one file id each, and here two of them run side by side
PipelineFiles == {"f1", "f2"}

\* the state after start-up, for two file ids
PipelineInit ==
    /\ now = 0
    /\ storage_type \in {"local", "s3"}
    /\ redis = [f \in PipelineFiles |-> Null]
    /\ blobs = [f \in PipelineFiles |-> None]
    /\ tmpdir = [f \in PipelineFiles |-> 0]
    /\ up = [f \in PipelineFiles |-> "new"]
    /\ task = [f \in PipelineFiles |-> [pc |-> "none", runs |-> 0, temp |-> FALSE]]
    /\ backend = [f \in PipelineFiles |-> Null]
    /\ dl = [f \in PipelineFiles |-> Null]
    /\ issued = {}
    /\ resp = NoResp
    /\ probe = NoProbe

\* uploads of a valid file, the task and the write-back, for either file
PipelineNext ==
    \/ \E f \in PipelineFiles, a, b \in BOOLEAN :
          upload_file_store(f, Upload("note", ".txt", "B1"), a, b)
    \/ \E f \in PipelineFiles, ok \in BOOLEAN : upload_file_submit(f, ok)
    \/ \E f \in PipelineFiles, ok \in BOOLEAN : upload_file_task_id(f, ok)
    \/ \E f \in PipelineFiles, ok \in BOOLEAN : scan_task_fetch(f, ok)
    \/ \E f \in PipelineFiles, r \in ConnectReplies, hard \in BOOLEAN :
          scan_task_connect(f, r, hard)
    \/ \E f \in PipelineFiles, r \in ScanReplies, t \in Threats, hard \in BOOLEAN :
          scan_task_scan(f, r, t, hard)
    \/ \E f \in PipelineFiles, ok \in BOOLEAN : update_file_scan_result(f, ok)

PipelineSpec == PipelineInit /\ [][PipelineNext]_vars

(* ------------- failure responses of the routes (main.py 212-221, 502-522) *)
\* the routes whose body runs in a try block with `except Exception`, and
\* where an exception is raised: inside that block, or in upload_file before
\* it (file.read() and file.seek(), lines 145 and 161)
FailingRoutes == {"upload", "download", "delete", "list"}
RaisedAt == {"try", "before_try"}
ExceptionTexts == {"[Errno 13] Permission denied: '/srv/uploads/f1_note.txt'",
                   "Error 111 connecting to redis:6379. Connection refused.",
                   "Invalid AWS access key AKIA..."}

\* a text as a response field: the fixed part of an f-string and what
\* str(e) adds to it
Text(fixed, added) == <<fixed, added>>

\* lines 217-221, 417-421, 451-455, 495-499: the route's own except clause
route_except(route, text) ==
    [status_code |-> 500,
     detail |-> Text(CASE route = "upload" -> "Failed to upload file: "
                       [] route = "download" -> "Failed to download file: "
                       [] route = "delete" -> "Failed to delete file: "
                       [] OTHER -> "Failed to list files: ", text)]

\* lines 503-511: the HTTPException's detail is sent as error and as detail
http_exception_handler(exc) ==
    [status_code |-> exc.status_code, error |-> exc.detail, detail |-> exc.detail]

\* lines 514-522: the exception text is sent only when settings.debug
general_exception_handler(text, debug) ==
    [status_code |-> 500, error |-> Text("Internal server error", ""),
     detail |-> IF debug THEN Text("", text) ELSE NullList]

\* the response a client gets when an exception with this text is raised
failure_response(route, at, text, debug) ==
    IF at = "try" THEN http_exception_handler(route_except(route, text))
    ELSE general_exception_handler(text, debug)

\* two runs of the service with the same settings
Runs == {1, 2}
IdleRun == [route |-> None, at |-> None, text |-> None, body |-> Null]

failure_open(debug) ==
    /\ probe = NoProbe
    /\ probe' = [op |-> "failure", debug |-> debug, runs |-> [r \in Runs |-> IdleRun]]
    /\ UNCHANGED <<now, storage_type, redis, blobs, tmpdir, up, task, backend,
                   dl, issued, resp>>

\* a request of a run fails with an internal exception and is answered
failure_request(r, route, at, text) ==
    /\ probe.op = "failure"
    /\ probe.runs[r] = IdleRun
    /\ at = "before_try" => route = "upload"
    /\ probe' = [probe EXCEPT !.runs[r] =
                    [route |-> route, at |-> at, text |-> text,
                     body |-> failure_response(route, at, text, probe.debug)]]
    /\ UNCHANGED <<now, storage_type, redis, blobs, tmpdir, up, task, backend,
                   dl, issued, resp>>

\* the run is ready for its next request
failure_next_request(r) ==
    /\ probe.op = "failure"
    /\ probe.runs[r] # IdleRun
    /\ probe' = [probe EXCEPT !.runs[r] = IdleRun]
    /\ UNCHANGED <<now, storage_type, redis, blobs, tmpdir, up, task, backend,
                   dl, issued, resp>>

FailureNext ==
    \/ \E debug \in BOOLEAN : failure_open(debug)
    \/ \E r \in Runs, route \in FailingRoutes, at \in RaisedAt, text \in ExceptionTexts :
          failure_request(r, route, at, text)
    \/ \E r \in Runs : failure_next_request(r)

FailureSpec == Init /\ [][FailureNext]_vars

(* ------------ retention of the records (main.py 52-73, redis SETEX) *)
\* 86400 * 7 seconds, in hours
retention_window == 168

\* hours the retention clock runs for, and the steps it moves in
RetentionMaxHour == 180
Passes == {12, 156}

\* lines 225-265: get_file_status answers 404 without a record
get_file_status(f, metadata) ==
    IF metadata = Null THEN Response("status", f, 404, "File not found", None)
    ELSE Response("status", f, 200, metadata.scan_status, None)

\* a store whose write keeps the time to live a key already has
setex_expiry_kept(f, ok, t) ==
    IF ok /\ probe.expires_at[f] = NoTime
      THEN [probe.expires_at EXCEPT ![f] = t + retention_window]
      ELSE probe.expires_at

\* lines 66-70: SETEX replaces the value and sets the time to live anew
setex_expiry(f, ok, t) ==
    IF ok THEN [probe.expires_at EXCEPT ![f] = t + retention_window]
    ELSE probe.expires_at

\* the store is watched: when each key expires, and which keys have expired
retention_open ==
    /\ probe = NoProbe
    /\ probe' = [op |-> "retention", expires_at |-> [f \in Files |-> NoTime],
                 expired |-> [f \in Files |-> FALSE]]
    /\ UNCHANGED <<now, storage_type, redis, blobs, tmpdir, up, task, backend,
                   dl, issued, resp>>

\* upload_file: bytes stored and the first write of the record
retention_upload(f, ok) ==
    /\ probe.op = "retention"
    /\ redis[f] = Null /\ blobs[f] = None
    /\ blobs' = [blobs EXCEPT ![f] = "B1"]
    /\ redis' = save_file_metadata(f, NewRecord, ok)
    /\ probe' = [probe EXCEPT !.expires_at = setex_expiry(f, ok, now),
                              !.expired[f] = IF ok THEN FALSE ELSE @]
    /\ resp' = NoResp
    /\ UNCHANGED <<now, storage_type, tmpdir, up, task, backend, dl, issued>>

\* update_file_scan_result: a later write of the record
retention_update(f, st, ok) ==
    /\ probe.op = "retention"
    /\ get_file_metadata(f) # Null
    /\ redis' = save_file_metadata(f,
                    WithScanResult(get_file_metadata(f),
                                   VirusScanResult(st, now, <<>>, None)), ok)
    /\ probe' = [probe EXCEPT !.expires_at = setex_expiry(f, ok, now)]
    /\ resp' = NoResp
    /\ UNCHANGED <<now, storage_type, blobs, tmpdir, up, task, backend, dl, issued>>

\* the stored bytes are removed while the record stays
retention_bytes_removed(f) ==
    /\ probe.op = "retention"
    /\ blobs[f] # None
    /\ blobs' = [blobs EXCEPT ![f] = None]
    /\ resp' = NoResp
    /\ UNCHANGED <<now, storage_type, probe, redis, tmpdir, up, task, backend, dl,
                   issued>>

\* time passes; redis removes the keys whose time to live has run out
retention_pass(d) ==
    /\ probe.op = "retention"
    /\ now + d <= RetentionMaxHour
    /\ now' = now + d
    /\ LET gone == {f \in Files : probe.expires_at[f] # NoTime
                                    /\ probe.expires_at[f] <= now + d} IN
         /\ redis' = [f \in Files |-> IF f \in gone THEN Null ELSE redis[f]]
         /\ probe' = [probe EXCEPT
                 !.expires_at = [f \in Files |-> IF f \in gone THEN NoTime ELSE @[f]],
                 !.expired = [f \in Files |-> IF f \in gone THEN TRUE ELSE @[f]]]
    /\ resp' = NoResp
    /\ UNCHANGED <<storage_type, blobs, tmpdir, up, task, backend, dl, issued>>

\* GET /files/{id}/status
retention_status(f) ==
    /\ probe.op = "retention"
    /\ resp' = get_file_status(f, get_file_metadata(f))
    /\ UNCHANGED <<now, storage_type, probe, redis, blobs, tmpdir, up, task,
                   backend, dl, issued>>

\* GET /files/{id}/download-link; the client keeps the latest link
retention_link(f) ==
    /\ probe.op = "retention"
    /\ resp' = download_link_check(f, get_file_metadata(f))
    /\ issued' = IF resp'.code = 200
                   THEN {generate_download_token(f, NoDelta, now)}
                   ELSE issued
    /\ UNCHANGED <<now, storage_type, probe, redis, blobs, tmpdir, up, task,
                   backend, dl>>

\* GET /download/{token}, in one step: the checks, and for a request that
\* passes them the write of the statistics
retention_download(tok, ok) ==
    /\ probe.op = "retention"
    /\ LET f == tok.file_id
           metadata == get_file_metadata(f)
           code == download_check(tok, metadata)
       IN  IF code # 0
             THEN /\ resp' = Response("download", f, code, download_detail(code), None)
                  /\ UNCHANGED <<redis, probe>>
             ELSE /\ metadata.download_count < MaxDownloads
                  /\ redis' = save_file_metadata(f, WithDownload(metadata), ok)
                  /\ probe' = [probe EXCEPT !.expires_at = setex_expiry(f, ok, now)]
                  /\ resp' = Response("download", f, 200, "released", None)
    /\ UNCHANGED <<now, storage_type, blobs, tmpdir, up, task, backend, dl, issued>>

RetentionNext ==
    \/ retention_open
    \/ \E f \in Files, ok \in BOOLEAN : retention_upload(f, ok)
    \/ \E f \in Files, st \in {"clean", "error"}, ok \in BOOLEAN : retention_update(f, st, ok)
    \/ \E f \in Files : retention_bytes_removed(f)
    \/ \E d \in Passes : retention_pass(d)
    \/ \E f \in Files : retention_status(f)
    \/ \E f \in Files : retention_link(f)
    \/ \E tok \in issued, ok \in BOOLEAN : retention_download(tok, ok)

RetentionSpec == Init /\ [][RetentionNext]_vars

(* ------- scratch files and cleanup_temp_files (virus_scan.py 200-214) *)
\* minutes: settings.virus_scan_timeout is 300 seconds and becomes
\* task_time_limit (line 29); cleanup removes files older than 3600 seconds
task_time_limit == 5
cleanup_age == 60

\* minutes the scratch clock runs for, the steps it moves in, and the
\* number of scratch files made
ScratchMaxMinute == 71
ScratchPasses == {5, 61}
MaxScratchFiles == 3

\* task runs that may be under way at the same time
Orchestrations == {1, 2}
IdleTask == [pc |-> "idle", started |-> NoTime, file |-> 0]

\* a cleanup that removes files older than a minute
cleanup_removes_after_a_minute(ctime, t) == t - ctime > 1

\* line 211: current_time - os.path.getctime(file_path) > 3600
cleanup_removes(ctime, t) == t - ctime > cleanup_age

\* the scratch directory is watched: its clock, its files (name, the run
\* that made it, time of creation) and the task runs
scratch_open ==
    /\ probe = NoProbe
    /\ storage_type = "s3"
    /\ probe' = [op |-> "scratch", clock |-> 0, made |-> 0, files |-> {},
                 orch |-> [o \in Orchestrations |-> IdleTask], swept |-> {}]
    /\ UNCHANGED <<now, storage_type, redis, blobs, tmpdir, up, task, backend,
                   dl, issued, resp>>

\* lines 127-133 and s3.py 112-126: mkstemp makes a file with a fresh name,
\* then the download; when it fails the task ends with an error result and
\* the file stays behind
scratch_task_fetch(o, download_ok) ==
    /\ probe.op = "scratch"
    /\ probe.orch[o].pc = "idle"
    /\ probe.made < MaxScratchFiles
    /\ probe' = [probe EXCEPT
          !.swept = {},
          !.made = @ + 1,
          !.files = @ \cup {[name |-> probe.made + 1, owner |-> o, ctime |-> probe.clock]},
          !.orch[o] = IF download_ok
                        THEN [pc |-> "running", started |-> probe.clock,
                              file |-> probe.made + 1]
                        ELSE IdleTask]
    /\ UNCHANGED <<now, storage_type, redis, blobs, tmpdir, up, task, backend,
                   dl, issued, resp>>

\* lines 178-184: the task returns, by a result or by an exception, and its
\* finally unlinks temp_file_path when it still exists
scratch_task_return(o) ==
    /\ probe.op = "scratch"
    /\ probe.orch[o].pc = "running"
    /\ probe' = [probe EXCEPT
          !.swept = {},
          !.files = {x \in @ : x.name # probe.orch[o].file},
          !.orch[o] = IdleTask]
    /\ UNCHANGED <<now, storage_type, redis, blobs, tmpdir, up, task, backend,
                   dl, issued, resp>>

\* the worker process is killed: at task_time_limit, or when it is lost
scratch_task_killed(o) ==
    /\ probe.op = "scratch"
    /\ probe.orch[o].pc = "running"
    /\ probe' = [probe EXCEPT !.orch[o] = IdleTask, !.swept = {}]
    /\ UNCHANGED <<now, storage_type, redis, blobs, tmpdir, up, task, backend,
                   dl, issued, resp>>

\* time passes; no task runs beyond task_time_limit
scratch_pass(d) ==
    /\ probe.op = "scratch"
    /\ probe.clock + d <= ScratchMaxMinute
    /\ \A o \in Orchestrations :
          probe.orch[o].pc = "running" =>
              probe.clock + d - probe.orch[o].started <= task_time_limit
    /\ probe' = [probe EXCEPT !.clock = @ + d, !.swept = {}]
    /\ UNCHANGED <<now, storage_type, redis, blobs, tmpdir, up, task, backend,
                   dl, issued, resp>>

\* lines 200-214: every tmp* file of the directory that is old enough goes
cleanup_temp_files ==
    /\ probe.op = "scratch"
    /\ probe' = [probe EXCEPT
          !.files = {x \in @ : ~cleanup_removes(x.ctime, probe.clock)},
          !.swept = {x.name : x \in {y \in probe.files :
                                          cleanup_removes(y.ctime, probe.clock)}}]
    /\ UNCHANGED <<now, storage_type, redis, blobs, tmpdir, up, task, backend,
                   dl, issued, resp>>

ScratchNext ==
    \/ scratch_open
    \/ \E o \in Orchestrations, ok \in BOOLEAN : scratch_task_fetch(o, ok)
    \/ \E o \in Orchestrations : scratch_task_return(o)
    \/ \E o \in Orchestrations : scratch_task_killed(o)
    \/ \E d \in ScratchPasses : scratch_pass(d)
    \/ cleanup_temp_files

ScratchSpec == Init /\ [][ScratchNext]_vars

(* ---------------------------------- list_files (main.py 458-499) *)
\* record keys the store may hold while a listing runs, and the values of
\* skip and limit a client asks with
ListKeys == {"f1", "f2", "f3"}
MaxSkip == 2
MaxLimit == 3

\* the orders redis KEYS may answer in: every arrangement of the keys held
KeyOrders(held) ==
    {s \in UNION {[1..n -> held] : n \in {Cardinality(held)}} :
        \A i \in DOMAIN s, j \in DOMAIN s : i # j => s[i] # s[j]}

\* a slice that forgets its upper end
page_slice_unlimited(keys, skip, limit) ==
    IF skip >= Len(keys) THEN <<>> ELSE SubSeq(keys, skip + 1, Len(keys))

\* line 472: file_keys[skip:skip + limit], for skip and limit from 0 up
page_slice(keys, skip, limit) ==
    LET last == IF skip + limit < Len(keys) THEN skip + limit ELSE Len(keys)
    IN  IF skip >= last THEN <<>> ELSE SubSeq(keys, skip + 1, last)

IdleListing == [pc |-> "idle", skip |-> 0, limit |-> 0, file_keys |-> <<>>,
                page |-> <<>>, files |-> <<>>, total |-> 0, code |-> 0]

\* the store is watched while GET /files runs
list_open(held) ==
    /\ probe = NoProbe
    /\ probe' = [op |-> "list", held |-> held, call |-> IdleListing]
    /\ UNCHANGED <<now, storage_type, redis, blobs, tmpdir, up, task, backend,
                   dl, issued, resp>>

\* lines 468-472: KEYS file:* and the slice of it
list_files_keys(skip, limit) ==
    /\ probe.op = "list"
    /\ probe.call.pc = "idle"
    /\ \E order \in KeyOrders(probe.held) :
          probe' = [probe EXCEPT !.call =
             [pc |-> "reading", skip |-> skip, limit |-> limit, file_keys |-> order,
              page |-> page_slice(order, skip, limit), files |-> <<>>,
              total |-> 0, code |-> 0]]
    /\ UNCHANGED <<now, storage_type, redis, blobs, tmpdir, up, task, backend,
                   dl, issued, resp>>

\* lines 475-486: GET of the next key of the page; a key that answers
\* nothing is passed over
list_files_read ==
    /\ probe.op = "list"
    /\ probe.call.pc = "reading"
    /\ probe.call.page # <<>>
    /\ probe' = [probe EXCEPT
          !.call.page = Tail(@),
          !.call.files = IF Head(probe.call.page) \in probe.held
                           THEN Append(@, Head(probe.call.page)) ELSE @]
    /\ UNCHANGED <<now, storage_type, redis, blobs, tmpdir, up, task, backend,
                   dl, issued, resp>>

\* lines 488-493: files, total = len(file_keys), skip and limit are returned
list_files_return ==
    /\ probe.op = "list"
    /\ probe.call.pc = "reading"
    /\ probe.call.page = <<>>
    /\ probe' = [probe EXCEPT !.call.pc = "returned",
                              !.call.total = Len(probe.call.file_keys),
                              !.call.code = 200]
    /\ UNCHANGED <<now, storage_type, redis, blobs, tmpdir, up, task, backend,
                   dl, issued, resp>>

\* the client has its answer
list_files_done ==
    /\ probe.op = "list"
    /\ probe.call.pc = "returned"
    /\ probe' = [probe EXCEPT !.call = IdleListing]
    /\ UNCHANGED <<now, storage_type, redis, blobs, tmpdir, up, task, backend,
                   dl, issued, resp>>

\* a record is deleted or expires; another request creates one
list_store_change(k) ==
    /\ probe.op = "list"
    /\ probe' = [probe EXCEPT !.held = IF k \in @ THEN @ \ {k} ELSE @ \cup {k}]
    /\ UNCHANGED <<now, storage_type, redis, blobs, tmpdir, up, task, backend,
                   dl, issued, resp>>

ListNext ==
    \/ \E held \in SUBSET ListKeys : list_open(held)
    \/ \E skip \in 0..MaxSkip, limit \in 0..MaxLimit : list_files_keys(skip, limit)
    \/ list_files_read
    \/ list_files_return
    \/ list_files_done
    \/ \E k \in ListKeys : list_store_change(k)

ListSpec == Init /\ [][ListNext]_vars

(* ================================================================ *)
(* Properties                                                       *)
(* ================================================================ *)

\* C1: download_file releases the stored bytes (local) or a presigned URL
\* (S3) only when, at the moment the token is redeemed, the token verifies,
\* the file's record exists and the record's scan_status is clean.  A request
\* goes past the checks only in that case and only on a token that verifies
\* for that file, the record copy it carries is that clean record, and a
\* response carries bytes or a URL only for a request that went past the
\* checks; a refused request releases nothing and changes nothing.
C1_ReleaseOnlyVerifiedClean ==
    [][ /\ \A f \in Files :
              (dl[f] = Null /\ dl'[f] # Null) =>
                  /\ get_file_metadata(f) # Null
                  /\ get_file_metadata(f).scan_status = "clean"
                  /\ dl'[f].metadata = get_file_metadata(f)
                  /\ \E tok \in issued \cup Forged : download_file_check(tok)
                  /\ \A tok \in issued \cup Forged :
                         download_file_check(tok) =>
                             verify_download_token(tok, now) = f
        /\ resp'.body # None =>
                  /\ resp'.op = "download"
                  /\ resp'.code \in {200, 302}
                  /\ dl[resp'.f] # Null
                  /\ dl[resp'.f].metadata.scan_status = "clean"
        /\ (resp'.op = "download" /\ resp'.code \in {401, 403, 404}) =>
                  /\ resp'.body = None
                  /\ UNCHANGED <<redis, dl>>
      ]_vars

\* C1 witness: a download request has just been answered with the bytes or
\* the presigned URL
C1_Witness ==
    /\ resp.op = "download"
    /\ resp.code \in {200, 302}
    /\ resp.body # None

\* C2 (as the specification states it): a record's scan_status never goes
\* from pending to a terminal state without passing through scanning, and a
\* terminal scan_status never changes afterwards.
C2_StatusOnlyForward ==
    [][ \A f \in Files :
          (redis[f] # Null /\ redis'[f] # Null) =>
              /\ redis[f].scan_status = "pending" =>
                     redis'[f].scan_status \in {"pending", "scanning"}
              /\ redis[f].scan_status \in Terminal =>
                     redis'[f].scan_status = redis[f].scan_status
      ]_vars

\* C3: generate_download_link issues a token only when the record it reads
\* is clean; for an infected record it answers 403 (Forbidden) and for a
\* pending or scanning record 202 (Pending, try again later), and in neither
\* case is a token issued.  Tokens are issued by no other step.
C3_TokenOnlyWhenClean ==
    [][ /\ issued' # issued =>
              /\ resp'.op = "link" /\ resp'.code = 200
              /\ issued' = issued \cup {generate_download_token(resp'.f, NoDelta, now)}
        /\ resp'.op = "link" =>
              LET m == get_file_metadata(resp'.f) IN
              /\ resp'.code = 200 => (m # Null /\ m.scan_status = "clean")
              /\ (m # Null /\ m.scan_status = "infected") =>
                     (resp'.code = 403 /\ issued' = issued)
              /\ (m # Null /\ m.scan_status \in {"pending", "scanning"}) =>
                     (resp'.code = 202 /\ issued' = issued)
      ]_vars

\* C3 witness: a link request for an infected file has just been refused
\* with 403, in a run in which a token was issued while the file was clean
C3_Witness ==
    /\ resp.op = "link"
    /\ resp.code = 403
    /\ redis[resp.f].scan_status = "infected"
    /\ issued # {}

\* C4: for an upload that passes validation the record (scan_status pending,
\* scan_result null, download_count 0) is stored before the scan task is
\* submitted: the handler reaches the submission only through the step that
\* wrote that record, the task is queued only by a handler that has written
\* it, and a task body starts only after the submission.
C4_RecordBeforeSubmit ==
    [][ \A f \in Files :
          /\ (up[f] # "recorded" /\ up'[f] = "recorded") =>
                 (up[f] = "new" /\ redis'[f] = NewRecord)
          /\ (task[f].pc = "none" /\ task'[f].pc # "none") =>
                 (up[f] = "recorded" /\ task'[f].pc = "queued")
          /\ (task[f].pc = "queued" /\ task'[f].pc # "queued") =>
                 up[f] \in {"submitted", "done"}
      ]_vars

\* C4 witness: the scan task has just been submitted and the store holds the
\* pending record the handler wrote before
C4_Witness ==
    \E f \in Files :
        /\ up[f] = "submitted"
        /\ task[f].pc = "queued"
        /\ redis[f] = NewRecord

\* C5 (as the specification states it): when the scan task has finished with
\* a verdict, the file's record carries that outcome: clean with no threats,
\* or infected with the threat found, and in both cases a scan_timestamp.
C5_RecordCarriesOutcome ==
    \A f \in Files :
        (/\ task[f].pc = "done"
         /\ backend[f] # Null
         /\ backend[f].status \in {"clean", "infected"}
         /\ redis[f] # Null) =>
            /\ redis[f].scan_status = backend[f].status
            /\ redis[f].scan_timestamp # NoTime
            /\ redis[f].scan_result # Null
            /\ redis[f].scan_result.threats_found = backend[f].threats_found

\* C6 (as the specification states it): every scan task that is delivered
\* eventually leaves the file's record in a terminal state (clean, infected
\* or error), whatever fault occurs; a record deleted meanwhile has no state
\* left to settle.
C6_DeliveredTaskEndsTerminal ==
    \A f \in Files :
        (task[f].pc = "queued") ~>
            (redis[f] = Null \/ redis[f].scan_status \in Terminal)

\* C7 (as the specification states it): a second invocation of the scan task
\* for a file whose record is already scanning or later is a no-op: the run
\* ends at once, does not go on to the scanner, and leaves result and scratch
\* directory as they are.
C7_RedeliveryIsNoOp ==
    [][ \A f \in Files :
          (/\ task[f].pc = "queued"
           /\ task[f].runs >= 1
           /\ task'[f].pc # "queued"
           /\ redis[f] # Null
           /\ redis[f].scan_status \in {"scanning"} \cup Terminal) =>
              /\ task'[f].pc = "done"
              /\ backend'[f] = backend[f]
              /\ tmpdir'[f] = tmpdir[f]
      ]_vars

\* C8 (as the specification states it): the record has left pending (it is
\* scanning) by the time the scan client holds a connection to the daemon.
C8_ScanningBeforeConnect ==
    \A f \in Files :
        (task[f].pc = "connected" /\ redis[f] # Null) =>
            redis[f].scan_status # "pending"

\* C9 (as the specification states it): when the daemon could not be reached
\* the run ends with the record in state error, never pending or scanning,
\* and the record's error detail says "timeout".
C9_UnreachableEndsInError ==
    \A f \in Files :
        (/\ task[f].pc = "done"
         /\ backend[f] # Null
         /\ backend[f].error_message \in
                {ClamAVScanner_connect("refused"), ClamAVScanner_connect("silent")}
         /\ redis[f] # Null) =>
            /\ redis[f].scan_status = "error"
            /\ redis[f].scan_result # Null
            /\ redis[f].scan_result.error_message = "timeout"

\* C10 (as the specification states it): a run that went past the time limit
\* has been abandoned with an outcome, and the outcome is status error with
\* error detail "timeout".
C10_TimeLimitClassifiedTimeout ==
    \A f \in Files :
        /\ task[f].pc = "killed" => backend[f] # Null
        /\ (/\ backend[f] # Null
            /\ backend[f].error_message \in
                   {ClamAVScanner_connect("silent"),
                    ClamAVScanner_scan_file("silent", "EICAR-Test").raised}) =>
               /\ backend[f].status = "error"
               /\ backend[f].error_message = "timeout"

\* C11 (as the specification states it): whenever no scan task body is
\* running for a file, the scratch directory holds no file a task created for
\* it: every run removed its scratch file on the way out.
C11_NoScratchLeft ==
    \A f \in Files :
        task[f].pc \in {"none", "queued", "done", "killed"} => tmpdir[f] = 0

\* C12 (as the specification states it): a token issued for file_id with
\* lifetime ttl verifies as file_id before ttl has elapsed and as invalid
\* after ttl has elapsed (an omitted lifetime is download_link_expire_hours),
\* and a token whose signature was altered verifies as invalid.
C12_TokenRoundTrip ==
    (probe.op = "verified" /\ probe.origin = "issued") =>
        LET ttl == IF probe.ttl = NoDelta THEN download_link_expire_hours
                   ELSE probe.ttl
        IN  /\ probe.tampered => probe.result = None
            /\ (~probe.tampered /\ probe.vat < probe.at + ttl) =>
                   probe.result = probe.file_id
            /\ (~probe.tampered /\ probe.vat > probe.at + ttl) =>
                   probe.result = None

\* C13: verify_download_token answers invalid (None), and answers at all, for
\* every token that is malformed, that carries a purpose other than
\* "download" or that lacks a file_id, also when the token is signed with
\* the server's key and has not expired.
C13_BadTokensAreInvalid ==
    (probe.op = "verified" /\ probe.origin = "presented") =>
        /\ probe.result \in Files \cup {None}
        /\ (\/ probe.token = MalformedToken
            \/ probe.token.type # "download"
            \/ probe.token.file_id = None) => probe.result = None

\* C13 witness: a token of another purpose, signed with the server's key,
\* naming a file and not expired, has been verified and found invalid
C13_Witness ==
    /\ probe.op = "verified"
    /\ probe.origin = "presented"
    /\ probe.token.key = "secret_key"
    /\ probe.token.type = "upload"
    /\ probe.token.file_id \in Files
    /\ probe.token.exp > probe.vat
    /\ probe.result = None

\* C14 (as the specification states it): a successful redemption of a
\* download link returns exactly the uploaded bytes (local storage; on S3
\* the presigned URL of the object), raises the record's download_count by
\* exactly one and sets last_downloaded to the time of the download.
C14_DownloadReturnsBytesAndCounts ==
    [][ (resp'.op = "download" /\ resp'.code \in {200, 302}) =>
            /\ resp'.code = 200 =>
                   (resp'.body = blobs[resp'.f] /\ resp'.body \in Contents)
            /\ redis[resp'.f] # Null =>
                   /\ redis'[resp'.f] # Null
                   /\ redis'[resp'.f].download_count =
                          redis[resp'.f].download_count + 1
                   /\ redis'[resp'.f].last_downloaded = now
      ]_vars

\* C15 (as the specification states it): for as long as a file's record
\* exists its download_count is non-negative and no step lowers it.
C15_DownloadCountNeverDecreases ==
    [][ \A f \in Files :
          (redis[f] # Null /\ redis'[f] # Null) =>
              /\ redis'[f].download_count >= 0
              /\ redis'[f].download_count >= redis[f].download_count
      ]_vars

\* C16 (as the specification states it): updates of one file's record do not
\* lose each other: a download that writes its statistics leaves the scan
\* outcome the record holds at that moment in place, and a scan write-back
\* leaves the download statistics in place.
C16_NoLostUpdate ==
    [][ \A f \in Files :
          (redis[f] # Null /\ redis'[f] # Null) =>
              /\ (/\ resp'.op = "download" /\ resp'.f = f
                  /\ resp'.code \in {200, 302}
                  /\ redis[f].scan_result # Null) =>
                     /\ redis'[f].scan_status = redis[f].scan_status
                     /\ redis'[f].scan_result = redis[f].scan_result
                     /\ redis'[f].scan_timestamp = redis[f].scan_timestamp
              /\ (/\ resp'.op # "download"
                  /\ redis'[f].scan_result # redis[f].scan_result
                  /\ redis'[f].scan_result # Null) =>
                     /\ redis'[f].download_count = redis[f].download_count
                     /\ redis'[f].last_downloaded = redis[f].last_downloaded
      ]_vars

\* C17: an upload that fails validation (no filename, extension not allowed,
\* larger than the maximum, empty) is answered 400 or 413 and writes no
\* bytes, creates no record and submits no task; whatever an unused file id
\* gets written for it comes from a request that has a filename, an allowed
\* extension and a size between 1 and the maximum.
C17_InvalidUploadStoresNothing ==
    [][ /\ (resp'.op = "upload" /\ resp'.code \in {400, 413}) =>
               UNCHANGED <<blobs, redis, task, up, tmpdir, backend>>
        /\ \A f \in Files :
              (/\ up[f] = "new"
               /\ \/ up'[f] # "new"
                  \/ blobs'[f] # blobs[f]
                  \/ redis'[f] # redis[f]
                  \/ task'[f] # task[f]) =>
                  /\ \E req \in Uploads, a, b \in BOOLEAN : upload_file_store(f, req, a, b)
                  /\ \A req \in Uploads :
                        (\E a, b \in BOOLEAN : upload_file_store(f, req, a, b)) =>
                            /\ req.filename # ""
                            /\ is_allowed_file(req)
                            /\ Len_(req.content) > 0
                            /\ Len_(req.content) <= max_file_size
      ]_vars

\* C17 witness: an upload has just been refused as too large and the
\* service holds no bytes, no record and no task
C17_Witness ==
    /\ resp.op = "upload"
    /\ resp.code = 413
    /\ \A f \in Files : blobs[f] = None /\ redis[f] = Null /\ task[f].pc = "none"

\* C18 (as the specification states it): on every storage backend a put for
\* a target that already has content fails with AlreadyExists and the content
\* stays as it is: no step replaces stored content, and a call that found
\* content at its target does not end in success.
C18_PutNeverOverwrites ==
    [][ /\ \A f \in Files :
              (blobs[f] # None /\ blobs'[f] # None) => blobs'[f] = blobs[f]
        /\ probe'.op = "storage" =>
              \A c \in Callers :
                  (/\ probe'.calls[c].pc = "done"
                   /\ probe'.calls[c].content # None
                   /\ probe'.calls[c].before # None) =>
                      probe'.calls[c].result # "ok"
      ]_vars

\* C19 (as the specification states it): when the delete operation has just
\* reported success for a file, neither its record nor its bytes exist; a
\* deletion that took effect on one of the two only is not reported as success.
C19_DeleteSuccessMeansBothGone ==
    (resp.op = "delete" /\ resp.code = 200) =>
        (redis[resp.f] = Null /\ blobs[resp.f] = None)

C21_DeleteAnswersWhatItDid ==
    [][ probe'.op = "storage" =>
          \A c \in Callers, f \in Files :
              (/\ probe.op = "storage"
               /\ probe.calls[c].pc = "idle"
               /\ probe'.calls[c].result \in {"True", "False"}) =>
                  (probe'.calls[c].result = "True"
                      <=> (blobs[f] # None /\ blobs'[f] = None))
      ]_vars

\* C22 (as the specification states it): a run of the scan client ends clean
\* only when the daemon was reached and answered with no detection; a
\* connection failure and every answer of another shape than a path-to-threat
\* mapping (an error entry for the path, an empty mapping, no answer) end
\* with status error, never clean and never infected.
C22_OnlyDetectionsAreInfected ==
    [][ \A f \in Files :
          (task[f].pc \in {"fetched", "connected"} /\ task'[f].pc = "done") =>
              /\ backend'[f].status = "clean" =>
                     /\ task[f].pc = "connected"
                     /\ \E t \in Threats, hard \in BOOLEAN :
                            scan_task_scan(f, "none", t, hard)
              /\ task[f].pc = "fetched" => backend'[f].status = "error"
              /\ \A r \in ScanReplies \ {"none", "found"} :
                     (\E t \in Threats, hard \in BOOLEAN : scan_task_scan(f, r, t, hard))
                         => backend'[f].status = "error"
      ]_vars

\* C23 (as the specification states it): connect tries the local socket
\* first and the network socket second: when at least one of the two answers
\* the liveness probe, connect succeeds, on the local socket if that one
\* answers and on the network socket otherwise; it fails only when neither
\* answers.
C23_FirstReachableChannelWins ==
    (probe.op = "scanner" /\ probe.pc = "done") =>
        /\ probe.seen.unix = "pong" =>
               (probe.result = "connected" /\ probe.channel = "unix")
        /\ (probe.seen.unix # "pong" /\ probe.seen.tcp = "pong") =>
               (probe.result = "connected" /\ probe.channel = "tcp")
        /\ (probe.seen.unix # "pong" /\ probe.seen.tcp # "pong") =>
               probe.result # "connected"


\* C24 (as the specification states it): on the download paths a missing
\* record and missing bytes are distinct NotFound outcomes: a link request
\* or a redemption for a clean record whose bytes are absent from storage
\* is answered 404 "File not found in storage", which differs from the 404
\* of an absent record, and is never a success or an internal error.
C24_MissingBytesIsNotFoundInStorage ==
    [][ \A f \in Files :
          /\ (generate_download_link(f) /\ redis[f] = Null) =>
                 (resp'.code = 404 /\ resp'.detail # "File not found in storage")
          /\ (/\ generate_download_link(f)
              /\ redis[f] # Null
              /\ redis[f].scan_status = "clean"
              /\ blobs[f] = None) =>
                 (resp'.code = 404 /\ resp'.detail = "File not found in storage")
          /\ (/\ dl[f] # Null
              /\ dl'[f] = Null
              /\ dl[f].metadata.scan_status = "clean"
              /\ blobs[f] = None) =>
                 (resp'.code = 404 /\ resp'.detail = "File not found in storage")
      ]_vars


\* C25 (as the specification states it): every step of the scan
\* orchestration of a file A (its task, from submission to its result, and
\* the write-back of that result), succeeding or failing, leaves the record,
\* the stored bytes and the scratch files of every other file B unchanged;
\* and whatever has happened to A, a storage or scanner failure included,
\* the next step of B's task can be taken.
C25_OtherFilesUntouched ==
    [][ \A a \in PipelineFiles : \A b \in PipelineFiles \ {a} :
          /\ (\/ task'[a] # task[a]
              \/ backend'[a] # backend[a]
              \/ (redis'[a] # redis[a] /\ up'[a] = up[a])) =>
                 /\ redis'[b] = redis[b]
                 /\ blobs'[b] = blobs[b]
                 /\ tmpdir'[b] = tmpdir[b]
          /\ task[b].pc = "queued" =>
                 ENABLED (\E ok \in BOOLEAN : scan_task_fetch(b, ok))
          /\ task[b].pc = "fetched" =>
                 ENABLED (\E r \in ConnectReplies, hard \in BOOLEAN : scan_task_connect(b, r, hard))
          /\ task[b].pc = "connected" =>
                 ENABLED (\E r \in ScanReplies, t \in Threats, hard \in BOOLEAN :
                             scan_task_scan(b, r, t, hard))
      ]_vars

\* file f1's task has failed on its storage or its scanner, f1's scratch
\* file is left behind, and f2's task has reached a clean outcome that is
\* written to f2's record
C25_Witness ==
    /\ DOMAIN task = PipelineFiles
    /\ backend["f1"] # Null
    /\ backend["f1"].status = "error"
    /\ tmpdir["f1"] > 0
    /\ redis["f2"] # Null
    /\ redis["f2"].scan_status = "clean"
    /\ tmpdir["f2"] = 0
    /\ blobs["f2"] # None


\* C26 (as the specification states it): when the service is not in debug
\* mode, the body of a failure response does not depend on the text of the
\* internal exception: two runs that fail in the same route at the same
\* place, with exceptions that differ only in their message, send the same
\* body.
C26_FailureBodyHidesExceptionText ==
    (probe.op = "failure" /\ ~probe.debug) =>
        \A r1 \in Runs, r2 \in Runs :
            (/\ probe.runs[r1] # IdleRun
             /\ probe.runs[r2] # IdleRun
             /\ probe.runs[r1].route = probe.runs[r2].route
             /\ probe.runs[r1].at = probe.runs[r2].at) =>
                probe.runs[r1].body = probe.runs[r2].body


\* C27 (as the specification states it): in every reachable state a
\* record's scan_result is null exactly when its scan_status is pending or
\* scanning; and scan_result and scan_timestamp are written once, in the
\* update that moves the status out of scanning (out of pending is accepted
\* here as well), and never rewritten.
C27_ScanResultWrittenOnce ==
    [][ \A f \in Files :
          /\ redis'[f] # Null =>
                 (redis'[f].scan_result = Null
                     <=> redis'[f].scan_status \in {"pending", "scanning"})
          /\ (/\ redis[f] # Null /\ redis'[f] # Null
              /\ redis[f].scan_result = Null
              /\ redis'[f].scan_result # Null) =>
                 (redis[f].scan_status \in {"pending", "scanning"}
                     /\ redis'[f].scan_timestamp # NoTime)
          /\ (/\ redis[f] # Null /\ redis'[f] # Null
              /\ redis[f].scan_result # Null) =>
                 /\ redis'[f].scan_result = redis[f].scan_result
                 /\ redis'[f].scan_timestamp = redis[f].scan_timestamp
      ]_vars


\* C28 (as the specification states it): every write of a record sets its
\* time to live to the full retention window; a record that is not written
\* for the whole window is removed from the store, whether or not its bytes
\* still exist; and after the expiry the status request, the download-link
\* request and the redemption of a token that verifies report that the
\* record is not found.
C28_RecordsExpireAfterWindow ==
    [][ probe.op = "retention" =>
          \A f \in Files :
            /\ (redis'[f] # Null /\ redis'[f] # redis[f]) =>
                   probe'.expires_at[f] = now + retention_window
            /\ redis'[f] # Null =>
                   (probe'.expires_at[f] # NoTime /\ now' < probe'.expires_at[f])
            /\ (/\ redis[f] # Null
                /\ redis'[f] = redis[f]
                /\ now' >= probe.expires_at[f]) => redis'[f] = Null
            /\ (/\ probe.expired[f]
                /\ redis[f] = Null
                /\ resp' # NoResp
                /\ resp'.f = f
                /\ \/ resp'.op \in {"status", "link"}
                   \/ /\ resp'.op = "download"
                      /\ \E tok \in issued : verify_download_token(tok, now) = f)
               => (resp'.code = 404 /\ resp'.detail = "File not found")
      ]_vars

\* the record of f1 has expired while its bytes are still stored, and a
\* token that still verifies has been redeemed and answered 404
C28_Witness ==
    /\ probe.op = "retention"
    /\ probe.expired["f1"]
    /\ redis["f1"] = Null
    /\ blobs["f1"] # None
    /\ \E tok \in issued : verify_download_token(tok, now) = "f1"
    /\ resp.op = "download"
    /\ resp.code = 404


\* C29 (as the specification states it): every result the scan task
\* produces has status clean, infected or error, never pending or scanning;
\* its threats list is non-empty only when the status is infected; and it
\* carries an error message exactly when the status is error.
C29_TaskResultWellFormed ==
    \A f \in Files :
        backend[f] # Null =>
            /\ backend[f].status \in {"clean", "infected", "error"}
            /\ (backend[f].threats_found \notin {NullList, <<>>}) =>
                   backend[f].status = "infected"
            /\ (backend[f].error_message # None) <=> (backend[f].status = "error")

\* the task has returned an infected result that names a threat
C29_Witness ==
    /\ task["f1"].pc = "done"
    /\ backend["f1"] # Null
    /\ backend["f1"].status = "infected"
    /\ \E t \in Threats : backend["f1"].threats_found = <<t>>
    /\ backend["f1"].error_message = None


\* C30 (as the specification states it): a scratch file is touched only by
\* the task run that made it: a task run removes no scratch file but its
\* own, and cleanup_temp_files never removes the scratch file of a task run
\* that is still under way.
C30_ScratchOwnedByItsRun ==
    [][ (probe.op = "scratch" /\ probe'.op = "scratch") =>
          \A x \in probe.files \ probe'.files :
              /\ \A o \in Orchestrations :
                     probe'.orch[o] # probe.orch[o] =>
                         (x.owner = o /\ probe.orch[o].file = x.name)
              /\ probe'.orch = probe.orch =>
                     ~(/\ probe.orch[x.owner].pc = "running"
                       /\ probe.orch[x.owner].file = x.name)
      ]_vars

\* cleanup_temp_files has just removed a file left behind more than an hour
\* ago, and has left the scratch file of a task run that has been under way
\* for some minutes
C30_Witness ==
    /\ probe.op = "scratch"
    /\ probe.swept # {}
    /\ \E o \in Orchestrations :
          /\ probe.orch[o].pc = "running"
          /\ probe.orch[o].started < probe.clock
          /\ \E x \in probe.files : x.name = probe.orch[o].file


\* C31 (as the specification states it): when the task's fetch of the file
\* fails because the bytes are missing from storage, the task contacts no
\* scanner and ends with an error result whose message names what is
\* missing, and the file's record shows that error result afterwards.
C31_MissingBytesEndInRecordedError ==
    [][ \A f \in Files :
          (/\ task[f].pc = "queued"
           /\ task'[f].pc # "queued"
           /\ blobs[f] = None
           /\ redis[f] # Null) =>
              /\ task'[f].pc = "done"
              /\ backend'[f] # Null
              /\ backend'[f].status = "error"
              /\ backend'[f].error_message \in
                     {"File not found in local storage",
                      "Failed to download file from S3 for scanning"}
              /\ redis'[f] # Null
              /\ redis'[f].scan_status = "error"
              /\ redis'[f].scan_result = backend'[f]
      ]_vars


\* C32 (as the specification states it): a listing with skip and limit
\* takes at most limit keys, those from position skip of the keys stored
\* when it enumerates them, and returns total as the number of those keys;
\* a record that is gone when its turn to be read comes is left out of the
\* page and the listing goes on and answers 200.
C32_ListPagesTheStoredRecords ==
    [][ (probe.op = "list" /\ probe'.op = "list") =>
          LET c == probe.call
              d == probe'.call
          IN  /\ (c.pc = "idle" /\ d.pc = "reading") =>
                     /\ Len(d.file_keys) = Cardinality(probe.held)
                     /\ {d.file_keys[i] : i \in DOMAIN d.file_keys} = probe.held
                     /\ Len(d.page) <= d.limit
                     /\ Len(d.page) + d.skip <= Len(d.file_keys) \/ d.page = <<>>
                     /\ \A i \in DOMAIN d.page : d.page[i] = d.file_keys[d.skip + i]
                     /\ \/ Len(d.page) = d.limit
                        \/ Len(d.page) + d.skip >= Len(d.file_keys)
              /\ (c.pc = "reading" /\ d.pc = "reading" /\ d.page # c.page) =>
                     IF Head(c.page) \in probe.held
                       THEN d.files = Append(c.files, Head(c.page))
                       ELSE d.files = c.files
              /\ (c.pc = "reading" /\ d.pc = "returned") =>
                     /\ d.code = 200
                     /\ d.total = Len(c.file_keys)
                     /\ Len(d.files) <= d.limit
      ]_vars

\* a listing from position 1 has returned a page that is one record short
\* of the keys it took, because that record went away before it was read
C32_Witness ==
    /\ probe.op = "list"
    /\ probe.call.pc = "returned"
    /\ probe.call.skip = 1
    /\ probe.call.limit = 2
    /\ probe.call.total = 3
    /\ Len(probe.call.files) = 1
    /\ probe.call.code = 200


\* C33 (as the specification states it): the upload handler's second write
\* of the record, which adds task_id after the task was submitted, never
\* undoes a scan outcome: when the write-back of the outcome has landed
\* between the handler's two writes, the record still shows the terminal
\* status and the scan_result after the second write.
C33_TaskIdWriteKeepsOutcome ==
    [][ \A f \in Files :
          (/\ up[f] = "submitted"
           /\ up'[f] = "done"
           /\ redis[f] # Null
           /\ redis[f].scan_status \in Terminal) =>
              /\ redis'[f] # Null
              /\ redis'[f].scan_status = redis[f].scan_status
              /\ redis'[f].scan_result = redis[f].scan_result
      ]_vars


\* C34 (as the specification states it): once delete_file has removed a
\* file's record, no request or task that was under way for that file (a
\* download writing its statistics, the upload handler's task_id write, a
\* scan write-back) creates the record again: a record comes into being
\* only by the first write of an upload.
C34_DeletedRecordStaysAbsent ==
    [][ \A f \in Files :
          (redis[f] = Null /\ redis'[f] # Null) => up[f] = "new"
      ]_vars


\* C35: a download-link request or a redemption that is refused (token
\* invalid or expired, record absent, status not clean, bytes absent from
\* storage) leaves every record as it was; on such requests download_count
\* and last_downloaded change only when the answer releases the bytes or a
\* presigned URL.
C35_RefusedRequestsWriteNothing ==
    [][ resp'.op \in {"link", "download"} =>
          /\ resp'.code \notin {200, 302} => redis' = redis
          /\ resp'.op = "link" => redis' = redis
          /\ \A f \in Files :
                (/\ redis[f] # Null
                 /\ redis'[f] # Null
                 /\ \/ redis'[f].download_count # redis[f].download_count
                    \/ redis'[f].last_downloaded # redis[f].last_downloaded) =>
                    (resp'.op = "download" /\ resp'.f = f
                        /\ resp'.code \in {200, 302} /\ resp'.body # None)
      ]_vars

\* a redemption of a valid token for a clean record was refused because the
\* bytes are gone, and the record still counts no download
C35_Witness ==
    /\ resp.op = "download"
    /\ resp.code = 500
    /\ redis["f1"] # Null
    /\ redis["f1"].scan_status = "clean"
    /\ redis["f1"].download_count = 0
    /\ redis["f1"].last_downloaded = NoTime
    /\ blobs["f1"] = None


\* C36 (as the specification states it): an upload that is answered with an
\* error after its validation passed (storage failure, failure of the
\* record write, failure to submit the scan task) leaves nothing behind: no
\* stored bytes without a record, and no pending record for which no scan
\* task was ever submitted.
C36_FailedUploadLeavesNothing ==
    [][ \A f \in Files :
          (/\ resp'.op = "upload"
           /\ resp'.f = f
           /\ resp'.code = 500) =>
              /\ blobs'[f] # None => redis'[f] # Null
              /\ (redis'[f] # Null /\ redis'[f].scan_status = "pending") =>
                     task'[f].pc # "none"
      ]_vars
====
